---- MODULE Spec2Model ----
(***************************************************************************)
(* Model of the download pipeline of calibre-web-automated-book-downloader *)
(* (Go): the BookQueue registry (internal/models/queue.go), the WorkerPool *)
(* (package downloader) and Downloader.DownloadBook                        *)
(* (internal/downloader/downloader.go).                                    *)
(*                                                                         *)
(* Every BookQueue method runs under bq.mu, so each method is one atomic   *)
(* action.  A worker goroutine is a small program counter machine whose    *)
(* steps are the points at which it takes the lock or touches the file     *)
(* system.                                                                 *)
(*                                                                         *)
(* Time.  time.Now() is used for two unrelated purposes: the AddedTime of  *)
(* a heap entry, which is only ever compared with other AddedTimes, and    *)
(* the status timestamp, which is only ever compared with the current time *)
(* in Refresh.  AddedTime is modelled by the ordinal of the Add that       *)
(* pushed the entry (nextSeq: the clock read under the lock is strictly    *)
(* increasing), the status timestamps by a coarse clock `now`.             *)
(***************************************************************************)
EXTENDS Integers, Sequences, FiniteSets, TLC

\* ------------------------------------------------------------------ bounds
MaxConcurrentDownloads == 2
MaxPriority == 2
MaxAdds == 2
MaxQueue == 3
MaxTime == 1
MaxURLs == 1
MaxFetchURLs == 2
MaxBody == 13
MaxRetryLimit == 3
MaxPageCalls == 2
\* statusTimeout, in ticks of `now`
StatusTimeout == 0

Ids == {"a", "b"}
Workers == 1 .. MaxConcurrentDownloads
Priorities == 1 .. MaxPriority
\* a book descriptor is reduced to the number of its candidate URLs
Descriptors == 0 .. MaxURLs
ChanIds == 1 .. (MaxConcurrentDownloads + Cardinality(Ids))

StatusQueued == "queued"
StatusDownloading == "downloading"
StatusAvailable == "available"
StatusError == "error"
StatusDone == "done"
StatusCancelled == "cancelled"
QueueStatus ==
  {StatusQueued, StatusDownloading, StatusAvailable, StatusError, StatusDone,
   StatusCancelled}

NoId == "none"
NoChan == 0
NoPath == "nil"
NoProgress == -1
NoFile == 0
\* a file is reachable by a path or by a worker's descriptor
Inodes == 1 .. (3 * Cardinality(Ids) + MaxConcurrentDownloads)

VARIABLES
  queue,             \* bq.queue: the heap array of QueueItems
  status,            \* bq.status: map id -> QueueStatus
  bookData,          \* bq.bookData: map id -> BookInfo
  statusTimestamps,  \* bq.statusTimestamps: map id -> time
  cancelFlags,       \* bq.cancelFlags: map id -> channel
  activeDownloads,   \* bq.activeDownloads: the keys of the map
  closedChans,       \* the channels that have been closed
  panicked,          \* a close of a closed channel has happened
  nextSeq,           \* ordinal of the next Add that pushes (AddedTime)
  now,               \* coarse clock of the status timestamps
  ingest,            \* the final paths that exist in the ingest directory
  pc,                \* per worker: position in worker/processDownload
  job,               \* per worker: bookID returned by GetNext
  cancelChan,        \* per worker: cancelChan returned by GetNext
  ctxDone,           \* per worker: ctx of processDownload is cancelled
  book,              \* per worker: the *BookInfo found by the lookup
  urlIdx,            \* per worker: index of the URL being attempted
  dlErr,             \* per worker: DownloadBook returned an error
  size,              \* per worker: totalSize parsed from the book's size
  contentLength,     \* per worker: resp.ContentLength of the attempt
  downloaded,        \* per worker: bytes read in the attempt
  fd,                \* per worker: the file the attempt writes to
  tmpFile,           \* per id: the file at outputPath + TempDownloadExt
  outFile,           \* per id: the file at outputPath in the tmp directory
  ingestFile,        \* per id: the file at the final path
  inodeData,         \* the bytes of each file
  reported,          \* per worker: the last value given to progressCallback
  stopChan,          \* wp.stopChan is closed
  stopPc,            \* position of the caller of Stop
  title,             \* per id: the Title of its BookInfo ("": none)
  page,              \* the call of HTMLGetPage: cfg.MaxRetry, retry, requests
  cancelledQ,        \* history: ids whose Cancel succeeded while queued
  cancelledD,        \* history: ids whose Cancel succeeded while downloading
  last               \* history: the operation that made the last step

regVars ==
  <<queue, status, bookData, statusTimestamps, cancelFlags, activeDownloads,
    closedChans, panicked, nextSeq>>
workerVars == <<pc, job, cancelChan, ctxDone, book, urlIdx, dlErr>>
fetchVars ==
  <<size, contentLength, downloaded, fd, tmpFile, outFile, ingestFile, inodeData,
    reported>>
stopVars == <<stopChan, stopPc>>
histVars == <<cancelledQ, cancelledD>>
vars ==
  <<regVars, now, ingest, workerVars, fetchVars, stopVars, title, page, histVars,
    last>>

\* ------------------------------------------------------------------ maps
EmptyMap == [x \in {} |-> 0]
Has(m, k) == k \in DOMAIN m
Put(m, k, v) == [x \in DOMAIN m \cup {k} |-> IF x = k THEN v ELSE m[x]]
\* variant: the entry is not deleted
DelKeeps(m, k) == m

Del(m, k) == [x \in DOMAIN m \ {k} |-> m[x]]
DelAll(m, ks) == [x \in DOMAIN m \ ks |-> m[x]]

\* ------------------------------------------------------------------ heap
\* Go slices are 0-based; At and Swap take 0-based indices.
At(h, i) == h[i + 1]
Swap(h, i, j) ==
  [k \in 1 .. Len(h) |->
     IF k = i + 1 THEN h[j + 1] ELSE IF k = j + 1 THEN h[i + 1] ELSE h[k]]

\* variant: the AddedTime tie-break is left out
ItemLessByPriority(x, y) == x.Priority < y.Priority

\* queue.go:63-70
ItemLess(x, y) ==
  IF x.Priority # y.Priority
    THEN x.Priority < y.Priority
    ELSE x.AddedTime < y.AddedTime

Less(h, i, j) == ItemLess(At(h, i), At(h, j))

RECURSIVE up(_, _)
up(h, j) ==
  LET i == IF j = 0 THEN 0 ELSE (j - 1) \div 2
  IN  IF i = j \/ ~Less(h, j, i) THEN h ELSE up(Swap(h, i, j), i)

\* down returns <<heap, final index>>; container/heap's down returns i > i0
RECURSIVE down(_, _, _)
down(h, i, n) ==
  LET j1 == 2 * i + 1
  IN  IF j1 >= n
        THEN <<h, i>>
        ELSE LET j == IF j1 + 1 < n /\ Less(h, j1 + 1, j1) THEN j1 + 1 ELSE j1
             IN  IF ~Less(h, j, i) THEN <<h, i>> ELSE down(Swap(h, i, j), j, n)

HeapPush(h, x) == up(Append(h, x), Len(h))

\* heap.Pop: [item, queue]
HeapPop(h) ==
  LET n == Len(h) - 1
      h2 == down(Swap(h, 0, n), 0, n)[1]
  IN  [item |-> h2[n + 1], queue |-> SubSeq(h2, 1, n)]

HeapFix(h, i) ==
  LET r == down(h, i, Len(h))
  IN  IF r[2] > i THEN r[1] ELSE up(h, i)

\* variant: the array is left as the priorities were written into it
HeapInitSkipped(h) == h

RECURSIVE heapInitFrom(_, _)
heapInitFrom(h, i) ==
  IF i < 0 THEN h ELSE heapInitFrom(down(h, i, Len(h))[1], i - 1)

HeapInit(h) == heapInitFrom(h, (Len(h) \div 2) - 1)


\* ------------------------------------------------------------------ channels
\* make(chan struct{}) returns a channel nothing else refers to.  A channel
\* that neither the registry nor a worker refers to is garbage, and its
\* identifier is reused.
Referenced(flags, chans) ==
  {flags[i] : i \in DOMAIN flags} \cup ({chans[w] : w \in Workers} \ {NoChan})

FreshChan ==
  CHOOSE c \in ChanIds :
    /\ c \notin Referenced(cancelFlags, cancelChan)
    /\ \A d \in ChanIds : d \notin Referenced(cancelFlags, cancelChan) => c <= d

\* close(ch) for every ch of cs: closing a closed channel panics.  Whether a
\* channel nothing refers to any more is closed cannot be observed, so it is
\* forgotten (cancelFlags' and cancelChan' are fixed before this conjunct).
CloseChans(cs) ==
  /\ closedChans' =
       (closedChans \cup cs) \cap Referenced(cancelFlags', cancelChan')
  /\ panicked' = (panicked \/ (cs \cap closedChans # {}))

\* ------------------------------------------------------------------ registry
\* Each operator below is the body of one BookQueue method, run under bq.mu.
\* It constrains the registry variables (regVars) only.

\* queue.go:176-179
updateStatus(m, bookID, st) == Put(m, bookID, st)

\* variant: an available record is taken for a finished one
AddRejectsUnfinished(st) == st = StatusQueued \/ st = StatusDownloading

\* queue.go:129-133: Add returns early for these statuses
AddRejects(st) ==
  st # StatusError /\ st # StatusDone /\ st # StatusCancelled

AddPushes(bookID) == ~(Has(status, bookID) /\ AddRejects(status[bookID]))

NewBookInfo(d, priority) ==
  [DownloadURLs |-> d, Priority |-> priority, DownloadPath |-> NoPath,
   Progress |-> NoProgress]

Add(bookID, d, priority) ==
  IF ~AddPushes(bookID)
    THEN UNCHANGED regVars
    ELSE /\ queue' =
              HeapPush(queue,
                [BookID |-> bookID, Priority |-> priority, AddedTime |-> nextSeq])
         /\ nextSeq' = nextSeq + 1
         /\ bookData' = Put(bookData, bookID, NewBookInfo(d, priority))
         /\ status' = updateStatus(status, bookID, StatusQueued)
         /\ statusTimestamps' = Put(statusTimestamps, bookID, now)
         /\ UNCHANGED <<cancelFlags, activeDownloads, closedChans, panicked>>

\* variant: the entries of queued ids are the ones skipped
SkipsPoppedQueued(bookID) == Has(status, bookID) /\ status[bookID] = StatusQueued

\* variant: the skip looks for the wrong status
SkipsPoppedDone(bookID) == Has(status, bookID) /\ status[bookID] = StatusDone

\* queue.go:158: the popped item is skipped
SkipsPopped(bookID) == Has(status, bookID) /\ status[bookID] = StatusCancelled

\* queue.go:153-172: [ok, item, queue]
RECURSIVE PopNext(_)
PopNext(q) ==
  IF Len(q) = 0
    THEN [ok |-> FALSE, queue |-> q]
    ELSE LET r == HeapPop(q)
         IN  IF SkipsPopped(r.item.BookID)
               THEN PopNext(r.queue)
               ELSE [ok |-> TRUE, item |-> r.item, queue |-> r.queue]

GetNext(r) ==
  /\ r = PopNext(queue)
  /\ queue' = r.queue
  /\ IF r.ok
       THEN /\ cancelFlags' = Put(cancelFlags, r.item.BookID, FreshChan)
            /\ activeDownloads' = activeDownloads \cup {r.item.BookID}
            /\ closedChans' = closedChans \ {FreshChan}
       ELSE UNCHANGED <<cancelFlags, activeDownloads, closedChans>>
  /\ UNCHANGED <<status, bookData, statusTimestamps, panicked, nextSeq>>

\* variant: the cancelled status is left out of the clean-up
CleansUpUncancelled(st) ==
  st = StatusAvailable \/ st = StatusError \/ st = StatusDone

\* variant: the clean-up does not look at the status
CleansUpAlways(st) == st \in QueueStatus

\* queue.go:189: the statuses on which UpdateStatus cleans up
CleansUp(st) ==
  st = StatusAvailable \/ st = StatusError \/ st = StatusDone \/ st = StatusCancelled

UpdateStatus(bookID, st) ==
  /\ status' = updateStatus(status, bookID, st)
  /\ statusTimestamps' = Put(statusTimestamps, bookID, now)
  /\ IF CleansUp(st)
       THEN /\ activeDownloads' = activeDownloads \ {bookID}
            /\ IF Has(cancelFlags, bookID)
                 THEN /\ cancelFlags' = Del(cancelFlags, bookID)
                      /\ CloseChans({cancelFlags[bookID]})
                 ELSE /\ UNCHANGED cancelFlags
                      /\ CloseChans({})
       ELSE UNCHANGED <<activeDownloads, cancelFlags, closedChans, panicked>>
  /\ UNCHANGED <<queue, bookData, nextSeq>>

UpdateDownloadPath(bookID, downloadPath) ==
  /\ bookData' =
       IF Has(bookData, bookID)
         THEN [bookData EXCEPT ![bookID].DownloadPath = downloadPath]
         ELSE bookData
  /\ UNCHANGED
       <<queue, status, statusTimestamps, cancelFlags, activeDownloads,
         closedChans, panicked, nextSeq>>

UpdateProgress(bookID, progress) ==
  /\ bookData' =
       IF Has(bookData, bookID)
         THEN [bookData EXCEPT ![bookID].Progress = progress]
         ELSE bookData
  /\ UNCHANGED
       <<queue, status, statusTimestamps, cancelFlags, activeDownloads,
         closedChans, panicked, nextSeq>>

\* queue.go:287 and queue.go:295: the two statuses CancelDownload acts on
CancelsActive(st) == st = StatusDownloading

\* variant: cancelling a cancelled record succeeds again
CancelsQueuedOrCancelled(st) == st = StatusQueued \/ st = StatusCancelled

CancelsQueued(st) == st = StatusQueued

CancelDownload(bookID, ret) ==
  IF ~Has(status, bookID)
    THEN ret = FALSE /\ UNCHANGED regVars
    ELSE IF CancelsActive(status[bookID])
      THEN /\ ret = TRUE
           /\ IF Has(cancelFlags, bookID)
                THEN /\ cancelFlags' = Del(cancelFlags, bookID)
                     /\ CloseChans({cancelFlags[bookID]})
                ELSE UNCHANGED <<cancelFlags, closedChans, panicked>>
           /\ status' = updateStatus(status, bookID, StatusCancelled)
           /\ statusTimestamps' = Put(statusTimestamps, bookID, now)
           /\ UNCHANGED <<queue, bookData, activeDownloads, nextSeq>>
      ELSE IF CancelsQueued(status[bookID])
        THEN /\ ret = TRUE
             /\ status' = updateStatus(status, bookID, StatusCancelled)
             /\ statusTimestamps' = Put(statusTimestamps, bookID, now)
             /\ UNCHANGED
                  <<queue, bookData, cancelFlags, activeDownloads, closedChans,
                    panicked, nextSeq>>
        ELSE ret = FALSE /\ UNCHANGED regVars

\* queue.go:315-316: index (0-based) of the first entry of bookID, or -1
RECURSIVE FindItem(_, _, _)
FindItem(q, bookID, i) ==
  IF i >= Len(q) THEN -1
  ELSE IF At(q, i).BookID = bookID THEN i ELSE FindItem(q, bookID, i + 1)

\* variant: a downloading id may still be given a priority
SetPriorityRefusesIdle(st) == st # StatusQueued /\ st # StatusDownloading

\* queue.go:310: the statuses for which SetPriority returns at once
SetPriorityRefuses(st) == st # StatusQueued

SetPriority(bookID, newPriority, ret) ==
  IF ~Has(status, bookID) \/ SetPriorityRefuses(status[bookID])
    THEN ret = FALSE /\ UNCHANGED regVars
    ELSE LET i == FindItem(queue, bookID, 0)
         IN  IF i < 0 THEN ret = FALSE /\ UNCHANGED regVars ELSE
             /\ ret = TRUE
             /\ queue' =
                  HeapFix([queue EXCEPT ![i + 1].Priority = newPriority], i)
             /\ bookData' =
                  IF Has(bookData, bookID)
                    THEN [bookData EXCEPT ![bookID].Priority = newPriority]
                    ELSE bookData
             /\ UNCHANGED
                  <<status, statusTimestamps, cancelFlags, activeDownloads,
                    closedChans, panicked, nextSeq>>

ReorderQueue(bookPriorities) ==
  LET inQueue == {queue[k].BookID : k \in 1 .. Len(queue)}
      touched == inQueue \cap DOMAIN bookPriorities
  IN  /\ queue' =
           HeapInit(
             [k \in 1 .. Len(queue) |->
                IF Has(bookPriorities, queue[k].BookID)
                  THEN [queue[k] EXCEPT !.Priority = bookPriorities[queue[k].BookID]]
                  ELSE queue[k]])
      /\ bookData' =
           [x \in DOMAIN bookData |->
              IF x \in touched
                THEN [bookData[x] EXCEPT !.Priority = bookPriorities[x]]
                ELSE bookData[x]]
      /\ UNCHANGED
           <<status, statusTimestamps, cancelFlags, activeDownloads, closedChans,
             panicked, nextSeq>>

\* variant: done records are kept
ClearsFailed(st) == st = StatusError \/ st = StatusCancelled

\* queue.go:374: the statuses ClearCompleted removes
Clears(st) == st = StatusDone \/ st = StatusError \/ st = StatusCancelled

ClearSet == {x \in DOMAIN status : Clears(status[x])}

ClearCompleted(ret) ==
  LET toRemove == ClearSet
      chans == {cancelFlags[x] : x \in toRemove \cap DOMAIN cancelFlags}
  IN  /\ ret = Cardinality(toRemove)
      /\ status' = DelAll(status, toRemove)
      /\ statusTimestamps' = DelAll(statusTimestamps, toRemove)
      /\ bookData' = DelAll(bookData, toRemove)
      /\ cancelFlags' = DelAll(cancelFlags, toRemove)
      /\ CloseChans(chans)
      /\ activeDownloads' = activeDownloads \ toRemove
      /\ UNCHANGED <<queue, nextSeq>>

\* queue.go:409-413: an available record without download path becomes done
Demoted(bookID) ==
  /\ status[bookID] = StatusAvailable
  /\ Has(bookData, bookID)
  /\ bookData[bookID].DownloadPath = NoPath

\* variant: the status is not looked at
StaleWhateverStatus(bookID) ==
  LET lastUpdate == IF Demoted(bookID) THEN now ELSE statusTimestamps[bookID]
  IN  /\ Has(statusTimestamps, bookID)
      /\ now - lastUpdate > StatusTimeout

\* queue.go:416-422: the timestamp is read after the demotion has rewritten
\* it, the status tested is the one read at the top of the iteration
Stale(bookID) ==
  LET lastUpdate == IF Demoted(bookID) THEN now ELSE statusTimestamps[bookID]
  IN  /\ Has(statusTimestamps, bookID)
      /\ now - lastUpdate > StatusTimeout
      /\ status[bookID] \in
           {StatusDone, StatusError, StatusAvailable, StatusCancelled}

Refresh ==
  LET demoted == {x \in DOMAIN status : Demoted(x)}
      toRemove == {x \in DOMAIN status : Stale(x)}
  IN  /\ status' =
           [x \in DOMAIN status \ toRemove |->
              IF x \in demoted THEN StatusDone ELSE status[x]]
      /\ statusTimestamps' =
           [x \in (DOMAIN statusTimestamps \cup demoted) \ toRemove |->
              IF x \in demoted THEN now ELSE statusTimestamps[x]]
      /\ bookData' = DelAll(bookData, toRemove)
      /\ UNCHANGED
           <<queue, cancelFlags, activeDownloads, closedChans, panicked, nextSeq>>

\* queue.go:250-275: the heap array, front to back, without the entries whose
\* id has no record
GetQueueOrder ==
  LET listed(x) == Has(bookData, x.BookID)
  IN  SelectSeq(queue, listed)

\* queue.go:230-234: the records GetStatus returns, whatever their group
GetStatusIds == DOMAIN status \cap DOMAIN bookData

\* ------------------------------------------------------------------ history
\* `last` describes the call that made the last step: its name, the id it was
\* about, the boolean it returned (TRUE when it returns none) and one more
\* value: an argument, or the value returned when that is no boolean.  It is written only under
\* the specifications that record (rec); under the others it stays as it is.
Op(op, id, ret, arg) == [op |-> op, id |-> id, ret |-> ret, arg |-> arg]

NoOp == Op("none", NoId, TRUE, 0)

Record(rec, o) == last' = IF rec THEN o ELSE last

\* the recorded call is forgotten
Observe ==
  /\ last.op # NoOp.op
  /\ last' = NoOp
  /\ UNCHANGED <<regVars, now, ingest, workerVars, fetchVars, stopVars, title,
                 page, histVars>>

\* ------------------------------------------------------------------ API
\* The HTTP adapter calls the registry on behalf of the users.

\* A panic ends the process.  Under a specification that records, the
\* recorded call is observed before the next step is taken.
Ready(rec) == ~panicked /\ (rec => last.op = NoOp.op)

\* the model follows the program up to `limit` pushes
CanAdd(limit, bookID) == AddPushes(bookID) => nextSeq < limit

ApiAdd(rec, limit, bookID, d, priority) ==
  /\ Ready(rec)
  /\ UNCHANGED <<fetchVars, stopVars, title, page>>
  /\ CanAdd(limit, bookID)
  /\ UNCHANGED <<now, ingest, workerVars>>
  /\ Add(bookID, d, priority)
  /\ Record(rec, Op("Add", bookID, AddPushes(bookID), <<d, priority>>))
  /\ cancelledQ' = IF AddPushes(bookID) THEN cancelledQ \ {bookID} ELSE cancelledQ
  /\ cancelledD' = IF AddPushes(bookID) THEN cancelledD \ {bookID} ELSE cancelledD

ApiCancelDownload(rec, bookID) ==
  /\ Ready(rec)
  /\ UNCHANGED <<fetchVars, stopVars, title, page>>
  /\ UNCHANGED <<now, ingest, workerVars>>
  /\ \E ret \in BOOLEAN :
       /\ CancelDownload(bookID, ret)
       /\ Record(rec, Op("Cancel", bookID, ret, 0))
       /\ cancelledQ' =
            IF ret /\ status[bookID] = StatusQueued
              THEN cancelledQ \cup {bookID}
              ELSE cancelledQ
       /\ cancelledD' =
            IF ret /\ status[bookID] = StatusDownloading
              THEN cancelledD \cup {bookID}
              ELSE cancelledD

ApiSetPriority(rec, bookID, newPriority) ==
  /\ Ready(rec)
  /\ UNCHANGED <<fetchVars, stopVars, title, page>>
  /\ UNCHANGED <<now, ingest, workerVars, histVars>>
  /\ \E ret \in BOOLEAN :
       /\ SetPriority(bookID, newPriority, ret)
       /\ Record(rec, Op("SetPriority", bookID, ret, newPriority))

ApiReorderQueue(rec, bookPriorities) ==
  /\ Ready(rec)
  /\ UNCHANGED <<fetchVars, stopVars, title, page>>
  /\ UNCHANGED <<now, ingest, workerVars, histVars>>
  /\ ReorderQueue(bookPriorities)
  /\ Record(rec, Op("ReorderQueue", NoId, TRUE, bookPriorities))

ApiClearCompleted(rec) ==
  /\ Ready(rec)
  /\ UNCHANGED <<fetchVars, stopVars, title, page>>
  /\ UNCHANGED <<now, ingest, workerVars, cancelledQ>>
  /\ \E ret \in {Cardinality(ClearSet)} :
       /\ ClearCompleted(ret)
       /\ Record(rec, Op("ClearCompleted", NoId, TRUE, ret))
  /\ cancelledD' = cancelledD \cap DOMAIN status'

\* GetStatus: Refresh, then the snapshot
ApiGetStatus(rec) ==
  /\ Ready(rec)
  /\ UNCHANGED <<fetchVars, stopVars, title, page>>
  /\ UNCHANGED <<now, ingest, workerVars, cancelledQ>>
  /\ Refresh
  /\ Record(rec, Op("GetStatus", NoId, TRUE, 0))
  /\ cancelledD' = cancelledD \cap DOMAIN status'

\* backend.GetQueueStatus after its GetStatus: outside the lock, a record of
\* the snapshot whose download path names a file that does not exist loses
\* its path.  The write goes through the pointer the snapshot shares with the
\* registry, so it may come at any time after the snapshot was taken.
QueueStatusVerify(rec, bookID) ==
  /\ Ready(rec)
  /\ UNCHANGED <<fetchVars, stopVars, title, page>>
  /\ bookID \in GetStatusIds
  /\ bookData[bookID].DownloadPath # NoPath
  /\ bookData[bookID].DownloadPath \notin ingest
  /\ bookData' = [bookData EXCEPT ![bookID].DownloadPath = NoPath]
  /\ Record(rec, Op("QueueStatusVerify", bookID, TRUE, 0))
  /\ UNCHANGED
       <<queue, status, statusTimestamps, cancelFlags, activeDownloads,
         closedChans, panicked, nextSeq>>
  /\ UNCHANGED <<now, ingest, workerVars, histVars>>

\* the library takes a file out of the ingest directory
FileVanishes(rec, path) ==
  /\ Ready(rec)
  /\ UNCHANGED <<fetchVars, stopVars, title, page>>
  /\ path \in ingest
  /\ ingest' = ingest \ {path}
  /\ UNCHANGED last
  /\ UNCHANGED <<regVars, now, workerVars, histVars>>

ApiGetQueueOrder(rec) ==
  /\ Ready(rec)
  /\ UNCHANGED <<fetchVars, stopVars, title, page>>
  /\ Record(rec, Op("GetQueueOrder", NoId, TRUE, GetQueueOrder))
  /\ UNCHANGED <<regVars, now, ingest, workerVars, histVars>>

\* GetNext called directly, as the tests of the registry do
ApiGetNext(rec) ==
  /\ Ready(rec)
  /\ UNCHANGED <<fetchVars, stopVars, title, page>>
  /\ UNCHANGED <<now, ingest, workerVars, histVars>>
  /\ \E r \in {PopNext(queue)} :
       /\ GetNext(r)
       /\ Record(rec,
            IF r.ok
              THEN Op("GetNext", r.item.BookID, TRUE, r.item)
              ELSE Op("GetNext", NoId, FALSE, Len(queue)))

Tick(rec) ==
  /\ Ready(rec)
  /\ UNCHANGED <<fetchVars, stopVars, title, page>>
  /\ now < MaxTime
  /\ now' = now + 1
  /\ UNCHANGED last
  /\ UNCHANGED <<regVars, ingest, workerVars, histVars>>

\* ------------------------------------------------------------------ workers
\* worker(): one iteration of the loop; an empty queue sends it back to sleep
WorkerGetNext(rec, w) ==
  /\ Ready(rec)
  /\ UNCHANGED <<fetchVars, stopVars, title, page>>
  /\ pc[w] = "idle"
  /\ \E r \in {PopNext(queue)} :
       /\ IF r.ok
            THEN /\ pc' = [pc EXCEPT ![w] = "start"]
                 /\ job' = [job EXCEPT ![w] = r.item.BookID]
                 /\ cancelChan' = [cancelChan EXCEPT ![w] = FreshChan]
                 /\ Record(rec, Op("GetNext", r.item.BookID, TRUE, r.item))
            ELSE /\ UNCHANGED <<pc, job, cancelChan>>
                 /\ Record(rec, Op("GetNext", NoId, FALSE, Len(queue)))
       /\ GetNext(r)
  /\ UNCHANGED <<now, ingest, ctxDone, book, urlIdx, dlErr, histVars>>

\* the goroutine of processDownload that turns the closed channel into the
\* cancellation of ctx
Monitor(rec, w) ==
  /\ Ready(rec)
  /\ UNCHANGED <<fetchVars, stopVars, title, page>>
  /\ pc[w] # "idle"
  /\ cancelChan[w] \in closedChans
  /\ ~ctxDone[w]
  /\ ctxDone' = [ctxDone EXCEPT ![w] = TRUE]
  /\ UNCHANGED last
  /\ UNCHANGED <<regVars, now, ingest, pc, job, cancelChan, book, urlIdx, dlErr,
                 histVars>>

\* processDownload: UpdateStatus(bookID, StatusDownloading)
WorkerStart(rec, w) ==
  /\ Ready(rec)
  /\ UNCHANGED <<fetchVars, stopVars, title, page>>
  /\ pc[w] = "start"
  /\ pc' = [pc EXCEPT ![w] = "refresh"]
  /\ UNCHANGED <<now, ingest, job, cancelChan, ctxDone, book, urlIdx, dlErr>>
  /\ UpdateStatus(job[w], StatusDownloading)
  /\ Record(rec, Op("UpdateStatus", job[w], TRUE, StatusDownloading))
  /\ UNCHANGED histVars

\* processDownload: GetStatus() first refreshes ...
WorkerRefresh(rec, w) ==
  /\ Ready(rec)
  /\ UNCHANGED <<fetchVars, stopVars, title, page>>
  /\ pc[w] = "refresh"
  /\ pc' = [pc EXCEPT ![w] = "lookup"]
  /\ UNCHANGED <<now, ingest, job, cancelChan, ctxDone, book, urlIdx, dlErr>>
  /\ Refresh
  /\ Record(rec, Op("GetStatus", NoId, TRUE, 0))
  /\ cancelledD' = cancelledD \cap DOMAIN status'
  /\ UNCHANGED cancelledQ

\* ... then takes the snapshot, in which the book is looked up.  DownloadBook
\* starts with the first URL, or fails at once when there is none.
WorkerLookup(rec, w) ==
  /\ Ready(rec)
  /\ UNCHANGED <<fetchVars, stopVars, title, page>>
  /\ pc[w] = "lookup"
  /\ IF job[w] \in GetStatusIds
       THEN LET b == bookData[job[w]].DownloadURLs
            IN  /\ book' = [book EXCEPT ![w] = b]
                /\ IF b = 0
                     THEN /\ pc' = [pc EXCEPT ![w] = "check"]
                          /\ dlErr' = [dlErr EXCEPT ![w] = TRUE]
                          /\ UNCHANGED urlIdx
                     ELSE /\ pc' = [pc EXCEPT ![w] = "attempt"]
                          /\ urlIdx' = [urlIdx EXCEPT ![w] = 1]
                          /\ UNCHANGED dlErr
       ELSE /\ pc' = [pc EXCEPT ![w] = "nobook"]
            /\ UNCHANGED <<book, urlIdx, dlErr>>
  /\ UNCHANGED last
  /\ UNCHANGED <<regVars, now, ingest, job, cancelChan, ctxDone, histVars>>

\* the worker is back at the top of its loop
Finish(w) ==
  /\ pc' = [pc EXCEPT ![w] = "idle"]
  /\ job' = [job EXCEPT ![w] = NoId]
  /\ cancelChan' = [cancelChan EXCEPT ![w] = NoChan]
  /\ ctxDone' = [ctxDone EXCEPT ![w] = FALSE]
  /\ book' = [book EXCEPT ![w] = 0]
  /\ urlIdx' = [urlIdx EXCEPT ![w] = 0]
  /\ dlErr' = [dlErr EXCEPT ![w] = FALSE]

\* processDownload's last statement on each of its paths
WorkerWrite(rec, w, st) ==
  /\ Ready(rec)
  /\ UNCHANGED <<fetchVars, stopVars, title, page>>
  /\ Finish(w)
  /\ UNCHANGED <<now, ingest>>
  /\ UpdateStatus(job[w], st)
  /\ Record(rec, Op("UpdateStatus", job[w], TRUE, st))
  /\ UNCHANGED histVars

\* processDownload: the book is not in the snapshot
WorkerNoBook(rec, w) ==
  /\ pc[w] = "nobook"
  /\ WorkerWrite(rec, w, StatusError)

\* DownloadBook: the attempt on the URL urlIdx[w] has failed
AttemptFails(w) ==
  IF urlIdx[w] < book[w]
    THEN /\ urlIdx' = [urlIdx EXCEPT ![w] = urlIdx[w] + 1]
         /\ UNCHANGED <<pc, dlErr>>
    ELSE /\ pc' = [pc EXCEPT ![w] = "check"]
         /\ dlErr' = [dlErr EXCEPT ![w] = TRUE]
         /\ UNCHANGED urlIdx

\* DownloadBook: DownloadURL on the URL urlIdx[w].  With ctx cancelled the
\* request or the next chunk fails; otherwise the server decides.
WorkerAttempt(rec, w) ==
  /\ Ready(rec)
  /\ UNCHANGED <<fetchVars, stopVars, title, page>>
  /\ pc[w] = "attempt"
  /\ \E ok \in BOOLEAN :
       /\ ok => ~ctxDone[w]
       /\ IF ok
            THEN /\ pc' = [pc EXCEPT ![w] = "move"]
                 /\ UNCHANGED <<urlIdx, dlErr>>
            ELSE AttemptFails(w)
  /\ UNCHANGED last
  /\ UNCHANGED <<regVars, now, ingest, job, cancelChan, ctxDone, book, histVars>>

\* The names of files are strings; Spell gives the characters of each name,
\* and a name is found again from its characters.
Names == {"a", "b", "x", "x:", " x", "y"}

Spell(name) ==
  CASE name = "a" -> <<"a">>
    [] name = "b" -> <<"b">>
    [] name = "x" -> <<"x">>
    [] name = "x:" -> <<"x", ":">>
    [] name = " x" -> <<" ", "x">>
    [] name = "y" -> <<"y">>

Unspell(cs) == CHOOSE name \in Names : Spell(name) = cs

\* strings.TrimSpace
RECURSIVE TrimSpace(_)
TrimSpace(cs) ==
  IF cs = <<>> THEN cs
  ELSE IF Head(cs) = " " THEN TrimSpace(Tail(cs))
  ELSE IF cs[Len(cs)] = " " THEN TrimSpace(SubSeq(cs, 1, Len(cs) - 1))
  ELSE cs

\* the characters the pattern [^a-zA-Z0-9 ._-] leaves in place
Kept(c) == c \in {"a", "b", "x", "y", " ", ".", "_", "-"}

\* sanitizeFilename: the characters outside the pattern are taken out, then
\* the spaces at both ends
sanitizeFilename(filename) ==
  Unspell(TrimSpace(SelectSeq(Spell(filename), Kept)))

\* DownloadBook: the file is named by the title when USE_BOOK_TITLE is on and
\* the book has a title, by the id otherwise
FileName(bookID) ==
  sanitizeFilename(IF title[bookID] # "" THEN title[bookID] ELSE bookID)

\* the final path of a book, in the ingest directory
FinalPath(bookID) == FileName(bookID)

\* DownloadBook: the move of the downloaded file into the ingest directory
WorkerMove(rec, w) ==
  /\ Ready(rec)
  /\ UNCHANGED <<fetchVars, stopVars, title, page>>
  /\ pc[w] = "move"
  /\ pc' = [pc EXCEPT ![w] = "check"]
  /\ \E ok \in BOOLEAN :
       /\ ingest' = IF ok THEN ingest \cup {FinalPath(job[w])} ELSE ingest
       /\ dlErr' = [dlErr EXCEPT ![w] = ~ok]
  /\ UNCHANGED last
  /\ UNCHANGED <<regVars, now, job, cancelChan, ctxDone, book, urlIdx, histVars>>

\* processDownload: the select on ctx.Done() after DownloadBook has returned
WorkerCheck(rec, w) ==
  /\ Ready(rec)
  /\ UNCHANGED <<fetchVars, stopVars, title, page>>
  /\ pc[w] = "check"
  /\ pc' =
       [pc EXCEPT ![w] =
          IF ctxDone[w] THEN "cancelled" ELSE IF dlErr[w] THEN "error" ELSE "path"]
  /\ UNCHANGED last
  /\ UNCHANGED <<regVars, now, ingest, job, cancelChan, ctxDone, book, urlIdx,
                 dlErr, histVars>>

WorkerCancelled(rec, w) ==
  /\ pc[w] = "cancelled"
  /\ WorkerWrite(rec, w, StatusCancelled)

WorkerError(rec, w) ==
  /\ pc[w] = "error"
  /\ WorkerWrite(rec, w, StatusError)

WorkerPath(rec, w) ==
  /\ Ready(rec)
  /\ UNCHANGED <<fetchVars, stopVars, title, page>>
  /\ pc[w] = "path"
  /\ pc' = [pc EXCEPT ![w] = "available"]
  /\ UNCHANGED <<now, ingest, job, cancelChan, ctxDone, book, urlIdx, dlErr>>
  /\ UpdateDownloadPath(job[w], FinalPath(job[w]))
  /\ UNCHANGED last
  /\ UNCHANGED histVars

WorkerAvailable(rec, w) ==
  /\ pc[w] = "available"
  /\ WorkerWrite(rec, w, StatusAvailable)

\* ------------------------------------------------------------------ fetcher
\* DownloadBook and DownloadURL statement by statement, with the files they
\* write.  WorkerAttempt and WorkerMove above are the same code taken as two
\* steps whose outcome is drawn; the steps below follow the request, the chunk
\* loop, the size check and the two renames, and keep the bytes of every file.
\* A byte served by the URL k is written k.  The temporary file, the output
\* file and the final file of a book are named after its id (FinalPath), so
\* two downloads of one id use the same three paths.

\* the files a path or an open descriptor refers to
FileRefs(t, o, g, f) ==
  ({t[i] : i \in Ids} \cup {o[i] : i \in Ids} \cup {g[i] : i \in Ids}
     \cup {f[w] : w \in Workers}) \ {NoFile}

FreshFile ==
  CHOOSE i \in Inodes :
    /\ i \notin FileRefs(tmpFile, outFile, ingestFile, fd)
    /\ \A j \in Inodes :
         j \notin FileRefs(tmpFile, outFile, ingestFile, fd) => i <= j

\* the bytes of the files after a step: a file nothing refers to is gone
\* (tmpFile', outFile', ingestFile' and fd' are fixed before this conjunct)
SetFiles(data) ==
  inodeData' =
    [i \in Inodes |->
       IF i \in FileRefs(tmpFile', outFile', ingestFile', fd')
         THEN data[i]
         ELSE <<>>]

\* file.Write at the offset off of a descriptor
WriteAt(c, off, bytes) ==
  [i \in 1 .. (IF Len(c) > off + Len(bytes) THEN Len(c) ELSE off + Len(bytes)) |->
     IF i > off /\ i <= off + Len(bytes) THEN bytes[i - off]
     ELSE IF i <= Len(c) THEN c[i] ELSE 0]

\* n bytes served by the URL k
Served(k, n) == [i \in 1 .. n |-> k]

\* downloader.go:762-770
totalSize(w) == IF size[w] # 0 THEN size[w] ELSE contentLength[w]

\* downloader.go:805: float64(downloaded) * 100.0 / float64(totalSize); the
\* sizes of the model make the quotient a whole number
Progress(n, total) == (n * 100) \div total

\* variant: a short download fails only when the response is an HTML page
TruncatedHTML(total, n, html) == total > 0 /\ n * 10 < total * 9 /\ html

\* downloader.go:821: float64(downloaded) < float64(totalSize) * 0.9; the
\* content type of the response is not looked at
Truncated(total, n, html) == total > 0 /\ n * 10 < total * 9

\* DownloadURL returns an error: its deferred file.Close, and DownloadBook's
\* loop goes to the next URL or gives up.  sz is the declared size the next
\* attempt will read again.
FetchFails(w, sz) ==
  /\ IF urlIdx[w] < book[w]
       THEN /\ urlIdx' = [urlIdx EXCEPT ![w] = urlIdx[w] + 1]
            /\ pc' = [pc EXCEPT ![w] = "attempt"]
            /\ UNCHANGED dlErr
       ELSE /\ pc' = [pc EXCEPT ![w] = "check"]
            /\ dlErr' = [dlErr EXCEPT ![w] = TRUE]
            /\ UNCHANGED urlIdx
  /\ fd' = [fd EXCEPT ![w] = NoFile]
  /\ downloaded' = [downloaded EXCEPT ![w] = 0]
  /\ contentLength' = [contentLength EXCEPT ![w] = 0]
  /\ size' = [size EXCEPT ![w] = IF urlIdx[w] < book[w] THEN sz ELSE 0]
  /\ reported' =
       [reported EXCEPT ![w] = IF urlIdx[w] < book[w] THEN @ ELSE NoProgress]

\* os.Remove(tempPath)
RemoveTmp(bookID) == tmpFile' = [tmpFile EXCEPT ![bookID] = NoFile]

\* DownloadURL up to the chunk loop: the request, the status of the response,
\* the total size and os.Create(tempPath), which truncates the file that is
\* there.  The declared size of the book (sz, 0 when it has none) is the same
\* for every attempt of the call.
FetchRequest(rec, w, sizes, lengths) ==
  /\ Ready(rec) /\ UNCHANGED <<stopVars, title, page>>
  /\ pc[w] = "attempt"
  /\ \E ok \in BOOLEAN, szNew \in sizes, cl \in lengths :
       LET sz == IF urlIdx[w] = 1 THEN szNew ELSE size[w]
           f == IF tmpFile[job[w]] # NoFile THEN tmpFile[job[w]] ELSE FreshFile
       IN  /\ ok => ~ctxDone[w]
           /\ IF ok
                THEN /\ tmpFile' = [tmpFile EXCEPT ![job[w]] = f]
                     /\ fd' = [fd EXCEPT ![w] = f]
                     /\ size' = [size EXCEPT ![w] = sz]
                     /\ contentLength' = [contentLength EXCEPT ![w] = cl]
                     /\ pc' = [pc EXCEPT ![w] = "chunk"]
                     /\ UNCHANGED <<downloaded, reported, urlIdx, dlErr>>
                ELSE /\ FetchFails(w, sz)
                     /\ UNCHANGED tmpFile
           /\ UNCHANGED <<outFile, ingestFile>>
           /\ SetFiles([inodeData EXCEPT ![f] = IF ok THEN <<>> ELSE @])
  /\ UNCHANGED last
  /\ UNCHANGED <<regVars, now, ingest, job, cancelChan, ctxDone, book, histVars>>

\* one turn of the chunk loop that reads n bytes: they are written to the
\* file and, when the total size is known, the progress is reported
FetchData(rec, w, n) ==
  LET total == totalSize(w)
      p == Progress(downloaded[w] + n, total)
  IN  /\ contentLength[w] >= 0 => downloaded[w] + n <= contentLength[w]
      /\ downloaded[w] + n <= MaxBody
      /\ downloaded' = [downloaded EXCEPT ![w] = @ + n]
      /\ UNCHANGED <<size, contentLength, fd, tmpFile, outFile, ingestFile>>
      /\ SetFiles(
           [inodeData EXCEPT
              ![fd[w]] = WriteAt(@, downloaded[w], Served(urlIdx[w], n))])
      /\ IF total > 0
           THEN /\ UpdateProgress(job[w], p)
                /\ reported' = [reported EXCEPT ![w] = p]
                /\ Record(rec, Op("UpdateProgress", job[w], TRUE, p))
           ELSE UNCHANGED <<regVars, reported, last>>
      /\ UNCHANGED <<pc, urlIdx, dlErr>>

\* the chunk loop: the poll of ctx.Done(), then resp.Body.Read.  A body of
\* known length ends with io.EOF only when all of it has been read.
FetchChunk(rec, w, chunks) ==
  /\ Ready(rec) /\ UNCHANGED <<stopVars, title, page>>
  /\ pc[w] = "chunk"
  /\ IF ctxDone[w]
       THEN /\ RemoveTmp(job[w])
            /\ FetchFails(w, size[w])
            /\ UNCHANGED <<outFile, ingestFile, regVars, last>>
            /\ SetFiles(inodeData)
       ELSE \/ \E n \in chunks : FetchData(rec, w, n)
            \/ /\ contentLength[w] >= 0 => downloaded[w] = contentLength[w]
               /\ pc' = [pc EXCEPT ![w] = "validate"]
               /\ UNCHANGED <<urlIdx, dlErr, fetchVars, regVars, last>>
            \/ /\ RemoveTmp(job[w])
               /\ FetchFails(w, size[w])
               /\ UNCHANGED <<outFile, ingestFile, regVars, last>>
               /\ SetFiles(inodeData)
  /\ UNCHANGED <<now, ingest, job, cancelChan, ctxDone, book, histVars>>

\* after the loop: the size check, then the rename of the temporary file to
\* the output path; when the temporary file is not there the rename and the
\* copy both fail
FetchValidate(rec, w) ==
  /\ Ready(rec) /\ UNCHANGED <<stopVars, title, page>>
  /\ pc[w] = "validate"
  /\ \E html \in BOOLEAN :
       IF Truncated(totalSize(w), downloaded[w], html)
         THEN /\ RemoveTmp(job[w])
              /\ FetchFails(w, size[w])
              /\ UNCHANGED outFile
              /\ Record(rec,
                   Op("DownloadURL", job[w], FALSE, <<totalSize(w), downloaded[w]>>))
         ELSE IF tmpFile[job[w]] = NoFile
           THEN /\ FetchFails(w, size[w])
                /\ UNCHANGED <<tmpFile, outFile>>
                /\ Record(rec,
                     Op("DownloadURL", job[w], FALSE, <<totalSize(w), downloaded[w]>>))
           ELSE /\ outFile' = [outFile EXCEPT ![job[w]] = tmpFile[job[w]]]
                /\ RemoveTmp(job[w])
                /\ fd' = [fd EXCEPT ![w] = NoFile]
                /\ pc' = [pc EXCEPT ![w] = "move"]
                /\ UNCHANGED <<size, contentLength, downloaded, reported, urlIdx, dlErr>>
                /\ Record(rec,
                     Op("DownloadURL", job[w], TRUE, <<totalSize(w), downloaded[w]>>))
  /\ UNCHANGED ingestFile
  /\ SetFiles(inodeData)
  /\ UNCHANGED <<regVars, now, ingest, job, cancelChan, ctxDone, book, histVars>>

\* DownloadBook: the rename of the output file to the final path; when the
\* output file is not there the rename and the copy both fail
FetchMove(rec, w) ==
  /\ Ready(rec) /\ UNCHANGED <<stopVars, title, page>>
  /\ pc[w] = "move"
  /\ pc' = [pc EXCEPT ![w] = "check"]
  /\ IF outFile[job[w]] = NoFile
       THEN /\ dlErr' = [dlErr EXCEPT ![w] = TRUE]
            /\ UNCHANGED <<outFile, ingestFile, ingest>>
       ELSE /\ dlErr' = [dlErr EXCEPT ![w] = FALSE]
            /\ ingestFile' = [ingestFile EXCEPT ![job[w]] = outFile[job[w]]]
            /\ outFile' = [outFile EXCEPT ![job[w]] = NoFile]
            /\ ingest' = ingest \cup {FinalPath(job[w])}
  /\ size' = [size EXCEPT ![w] = 0]
  /\ contentLength' = [contentLength EXCEPT ![w] = 0]
  /\ downloaded' = [downloaded EXCEPT ![w] = 0]
  /\ reported' = [reported EXCEPT ![w] = NoProgress]
  /\ UNCHANGED <<fd, tmpFile>>
  /\ SetFiles(inodeData)
  /\ UNCHANGED last
  /\ UNCHANGED <<regVars, now, job, cancelChan, ctxDone, book, urlIdx, histVars>>

\* a worker whose downloads are followed step by step
Fetcher(rec, w, sizes, lengths, chunks) ==
  \/ WorkerGetNext(rec, w)
  \/ Monitor(rec, w)
  \/ WorkerStart(rec, w)
  \/ WorkerRefresh(rec, w)
  \/ WorkerLookup(rec, w)
  \/ WorkerNoBook(rec, w)
  \/ FetchRequest(rec, w, sizes, lengths)
  \/ FetchChunk(rec, w, chunks)
  \/ FetchValidate(rec, w)
  \/ FetchMove(rec, w)
  \/ WorkerCheck(rec, w)
  \/ WorkerCancelled(rec, w)
  \/ WorkerError(rec, w)
  \/ WorkerPath(rec, w)
  \/ WorkerAvailable(rec, w)

\* ------------------------------------------------------------------ shutdown
\* The worker's loop with its select on wp.stopChan taken as a step of its
\* own, and Stop.  WorkerGetNext above is the select and the GetNext of one
\* turn of the loop taken together, for the specifications in which Stop is
\* not called.

\* worker(): the select at the top of the loop.  With stopChan closed the
\* worker returns, and its deferred wg.Done runs; otherwise the default branch
\* is taken.
WorkerSelect(rec, w) ==
  /\ Ready(rec) /\ UNCHANGED <<fetchVars, stopVars, title, page>>
  /\ pc[w] = "idle"
  /\ pc' = [pc EXCEPT ![w] = IF stopChan THEN "exited" ELSE "poll"]
  /\ UNCHANGED last
  /\ UNCHANGED <<regVars, now, ingest, job, cancelChan, ctxDone, book, urlIdx,
                 dlErr, histVars>>

\* worker(): the default branch: GetNext, then processDownload or the sleep
WorkerPoll(rec, w) ==
  /\ Ready(rec) /\ UNCHANGED <<fetchVars, stopVars, title, page>>
  /\ pc[w] = "poll"
  /\ \E r \in {PopNext(queue)} :
       /\ IF r.ok
            THEN /\ pc' = [pc EXCEPT ![w] = "start"]
                 /\ job' = [job EXCEPT ![w] = r.item.BookID]
                 /\ cancelChan' = [cancelChan EXCEPT ![w] = FreshChan]
                 /\ Record(rec, Op("GetNext", r.item.BookID, TRUE, r.item))
            ELSE /\ pc' = [pc EXCEPT ![w] = "idle"]
                 /\ UNCHANGED <<job, cancelChan>>
                 /\ Record(rec, Op("GetNext", NoId, FALSE, Len(queue)))
       /\ GetNext(r)
  /\ UNCHANGED <<now, ingest, ctxDone, book, urlIdx, dlErr, histVars>>

\* variant: Wait returns without waiting
WaitReturnsAtOnce(running) == TRUE

\* wg.Wait returns when every worker has run its wg.Done
WaitReturns(running) == running = {}

\* Stop: close(wp.stopChan)
StopClose(rec) ==
  /\ Ready(rec) /\ UNCHANGED <<fetchVars, title, page>>
  /\ stopPc = "none"
  /\ stopPc' = "wait"
  /\ stopChan' = TRUE
  /\ UNCHANGED last
  /\ UNCHANGED <<regVars, now, ingest, workerVars, histVars>>

\* Stop: wp.wg.Wait() returns, and Stop with it
StopWait(rec) ==
  /\ Ready(rec) /\ UNCHANGED <<fetchVars, title, page>>
  /\ stopPc = "wait"
  /\ WaitReturns({w \in Workers : pc[w] # "exited"})
  /\ stopPc' = "done"
  /\ UNCHANGED stopChan
  /\ UNCHANGED last
  /\ UNCHANGED <<regVars, now, ingest, workerVars, histVars>>

\* a worker of a pool that is stopped
PoolWorker(rec, w) ==
  \/ WorkerSelect(rec, w)
  \/ WorkerPoll(rec, w)
  \/ Monitor(rec, w)
  \/ WorkerStart(rec, w)
  \/ WorkerRefresh(rec, w)
  \/ WorkerLookup(rec, w)
  \/ WorkerNoBook(rec, w)
  \/ WorkerAttempt(rec, w)
  \/ WorkerMove(rec, w)
  \/ WorkerCheck(rec, w)
  \/ WorkerCancelled(rec, w)
  \/ WorkerError(rec, w)
  \/ WorkerPath(rec, w)
  \/ WorkerAvailable(rec, w)

\* ------------------------------------------------------------------ pages
\* HTMLGetPage and htmlGetPageRetry.  page holds cfg.MaxRetry (max), the
\* arguments retry and useBypasser of the running call of htmlGetPageRetry,
\* the number of requests client.Do has sent for this HTMLGetPage, the seconds
\* slept in units of cfg.DefaultSleep, and where the call is: "idle" before
\* the first call, "call" while htmlGetPageRetry runs, then "ok" or the error
\* it returned ("create", "fetch", "404", "403", "status", "read").

\* what one run of htmlGetPageRetry meets: a URL that does not parse, an error
\* of client.Do (the client times out after 30 seconds), a status code, and
\* for 200 a body that reads or does not
Responses == {"badurl", "transport", "404", "403", "500", "200", "200unread"}

PageIdle(r) ==
  [max |-> r, retry |-> r, useBypasser |-> FALSE, requests |-> 0, slept |-> 0,
   calls |-> 0, at |-> "idle"]

\* variant: a retry does not count down
RetryKept(retry) == retry

\* htmlGetPageRetry(..., retry-1, ...)
RetryLeft(retry) == retry - 1

\* HTMLGetPage: htmlGetPageRetry with retry = cfg.MaxRetry
HTMLGetPage(rec, useBypasser) ==
  /\ Ready(rec) /\ UNCHANGED <<fetchVars, stopVars, title>>
  /\ page.at # "call"
  /\ page.calls < MaxPageCalls
  /\ page' =
       [page EXCEPT !.retry = page.max, !.useBypasser = useBypasser,
                    !.requests = 0, !.slept = 0, !.calls = page.calls + 1,
                    !.at = "call"]
  /\ UNCHANGED last
  /\ UNCHANGED <<regVars, now, ingest, workerVars, histVars>>

\* one run of htmlGetPageRetry, up to its return or its recursive call
htmlGetPageRetry(rec, resp) ==
  /\ Ready(rec) /\ UNCHANGED <<fetchVars, stopVars, title>>
  /\ page.at = "call"
  /\ resp = "badurl" => page.requests = 0
  /\ LET sent == [page EXCEPT !.requests = page.requests + 1]
         again ==
           [sent EXCEPT !.retry = RetryLeft(page.retry),
                        !.slept = page.slept + (page.max - page.retry + 1)]
     IN  page' =
           CASE resp = "badurl" -> [page EXCEPT !.at = "create"]
             [] resp = "transport" ->
                  IF page.retry = 0 THEN [sent EXCEPT !.at = "fetch"] ELSE again
             [] resp = "404" -> [sent EXCEPT !.at = "404"]
             [] resp = "403" ->
                  IF page.retry > 0
                    THEN [sent EXCEPT !.retry = RetryLeft(page.retry),
                                      !.useBypasser = TRUE]
                    ELSE [sent EXCEPT !.at = "403"]
             [] resp = "500" ->
                  IF page.retry = 0 THEN [sent EXCEPT !.at = "status"] ELSE again
             [] resp = "200" -> [sent EXCEPT !.at = "ok"]
             [] resp = "200unread" -> [sent EXCEPT !.at = "read"]
  /\ UNCHANGED last
  /\ UNCHANGED <<regVars, now, ingest, workerVars, histVars>>

PageStep(rec) == \E resp \in Responses : htmlGetPageRetry(rec, resp)

\* ------------------------------------------------------------------ system
\* the state after NewBookQueue, NewWorkerPool and Start, whatever the books
InitPool ==
  /\ queue = <<>>
  /\ status = EmptyMap
  /\ bookData = EmptyMap
  /\ statusTimestamps = EmptyMap
  /\ cancelFlags = EmptyMap
  /\ activeDownloads = {}
  /\ closedChans = {}
  /\ panicked = FALSE
  /\ nextSeq = 0
  /\ now = 0
  /\ ingest = {}
  /\ pc = [w \in Workers |-> "idle"]
  /\ job = [w \in Workers |-> NoId]
  /\ cancelChan = [w \in Workers |-> NoChan]
  /\ ctxDone = [w \in Workers |-> FALSE]
  /\ book = [w \in Workers |-> 0]
  /\ urlIdx = [w \in Workers |-> 0]
  /\ dlErr = [w \in Workers |-> FALSE]
  /\ size = [w \in Workers |-> 0]
  /\ contentLength = [w \in Workers |-> 0]
  /\ downloaded = [w \in Workers |-> 0]
  /\ fd = [w \in Workers |-> NoFile]
  /\ tmpFile = [id \in Ids |-> NoFile]
  /\ outFile = [id \in Ids |-> NoFile]
  /\ ingestFile = [id \in Ids |-> NoFile]
  /\ inodeData = [i \in Inodes |-> <<>>]
  /\ reported = [w \in Workers |-> NoProgress]
  /\ stopChan = FALSE
  /\ stopPc = "none"
  /\ cancelledQ = {}
  /\ cancelledD = {}
  /\ last = NoOp

\* USE_BOOK_TITLE is off, or the books have no title: files are named by the id
Init ==
  /\ InitPool
  /\ title = [id \in Ids |-> ""]
  /\ page = PageIdle(0)

\* USE_BOOK_TITLE is on and every book has a title
Titles == {"x", "x:", " x", "y"}

InitTitle ==
  /\ InitPool
  /\ title \in [Ids -> Titles]
  /\ page = PageIdle(0)

\* MAX_RETRY is any number of retries up to MaxRetryLimit
InitPage ==
  /\ InitPool
  /\ title = [id \in Ids |-> ""]
  /\ page \in {PageIdle(r) : r \in 0 .. MaxRetryLimit}

Worker(rec, w) ==
  \/ WorkerGetNext(rec, w)
  \/ Monitor(rec, w)
  \/ WorkerStart(rec, w)
  \/ WorkerRefresh(rec, w)
  \/ WorkerLookup(rec, w)
  \/ WorkerNoBook(rec, w)
  \/ WorkerAttempt(rec, w)
  \/ WorkerMove(rec, w)
  \/ WorkerCheck(rec, w)
  \/ WorkerCancelled(rec, w)
  \/ WorkerError(rec, w)
  \/ WorkerPath(rec, w)
  \/ WorkerAvailable(rec, w)

\* Spec: the pool of MaxConcurrentDownloads workers under the calls that add,
\* cancel, clear and sweep.
Next ==
  \/ \E id \in Ids : ApiAdd(FALSE, MaxAdds, id, 1, 1)
  \/ \E id \in Ids : ApiCancelDownload(FALSE, id)
  \/ ApiClearCompleted(FALSE)
  \/ ApiGetStatus(FALSE)
  \/ Tick(FALSE)
  \/ \E w \in Workers : Worker(FALSE, w)

Spec == Init /\ [][Next]_vars

\* SpecApi: one worker under the calls that add, cancel, clear and sweep, with
\* every descriptor and priority.  A call of the registry is recorded in `last`
\* with its arguments and its result, and observed before the next step is
\* taken (Ready).
NextApi ==
  \/ \E id \in Ids, d \in Descriptors, p \in Priorities :
       ApiAdd(TRUE, MaxAdds, id, d, p)
  \/ \E id \in Ids : ApiCancelDownload(TRUE, id)
  \/ ApiClearCompleted(TRUE)
  \/ ApiGetStatus(TRUE)
  \/ Tick(TRUE)
  \/ Worker(TRUE, 1)
  \/ Observe

SpecApi == Init /\ [][NextApi]_vars

\* SpecSweep: one worker under the calls that add, cancel, set a priority,
\* clear and report the queue status, while the library takes files out of
\* the ingest directory; every status, done included, is reached.
NextSweep ==
  \/ \E id \in Ids, p \in Priorities : ApiAdd(TRUE, MaxAdds, id, 1, p)
  \/ \E id \in Ids : ApiCancelDownload(TRUE, id)
  \/ \E id \in Ids, p \in Priorities : ApiSetPriority(TRUE, id, p)
  \/ ApiClearCompleted(TRUE)
  \/ ApiGetStatus(TRUE)
  \/ \E id \in Ids : QueueStatusVerify(TRUE, id)
  \/ \E id \in Ids : FileVanishes(TRUE, FinalPath(id))
  \/ Worker(TRUE, 1)
  \/ Observe

SpecSweep == Init /\ [][NextSweep]_vars

\* SpecOrder: the registry alone, driven as its tests drive it: the calls that
\* shape the heap, on three ids and up to MaxQueue pushes, and GetNext.
OrderIds == {"a", "b", "c"}

OrderMaps == UNION {[S -> Priorities] : S \in SUBSET OrderIds}

NextOrder ==
  \/ \E id \in OrderIds, p \in Priorities : ApiAdd(TRUE, MaxQueue, id, 1, p)
  \/ \E id \in OrderIds : ApiCancelDownload(TRUE, id)
  \/ \E id \in OrderIds, p \in Priorities : ApiSetPriority(TRUE, id, p)
  \/ \E m \in OrderMaps : ApiReorderQueue(TRUE, m)
  \/ ApiClearCompleted(TRUE)
  \/ ApiGetNext(TRUE)
  \/ ApiGetQueueOrder(TRUE)
  \/ Observe

SpecOrder == Init /\ [][NextOrder]_vars

\* SpecFetch: one worker whose downloads are followed step by step, on one id
\* that is added, cancelled and added again.
FetchIds == {"a"}
FetchDescriptors == 0 .. MaxFetchURLs
\* the declared sizes (0: none), the content lengths (-1: unknown) and the
\* numbers of bytes one Read returns
FetchSizes == {0, 10}
FetchLengths == {-1, 10}
FetchChunks == {4, 5}

NextFetch ==
  \/ \E id \in FetchIds, d \in FetchDescriptors : ApiAdd(TRUE, MaxAdds, id, d, 1)
  \/ \E id \in FetchIds : ApiCancelDownload(TRUE, id)
  \/ ApiClearCompleted(TRUE)
  \/ Fetcher(TRUE, 1, FetchSizes, FetchLengths, FetchChunks)
  \/ Observe

SpecFetch == Init /\ [][NextFetch]_vars

\* SpecShare: two workers and one id with one URL that serves ShareLength
\* bytes; the id is added, cancelled and added again, so that both workers may
\* come to download it.
ShareLength == 1

NextShare ==
  \/ \E id \in FetchIds : ApiAdd(FALSE, MaxAdds, id, 1, 1)
  \/ \E id \in FetchIds : ApiCancelDownload(FALSE, id)
  \/ ApiClearCompleted(FALSE)
  \/ \E w \in Workers : Fetcher(FALSE, w, {0}, {ShareLength}, {1})

SpecShare == Init /\ [][NextShare]_vars

\* SpecLive: the pool under calls that add, clear and sweep, and no Cancel.
\* Each worker is a goroutine of its own, which the Go scheduler runs again
\* and again: a worker that can take a step eventually takes one.  A worker
\* that finds the heap empty sleeps and polls again.
\* With no Cancel no cancel channel is closed while its worker is busy and no
\* record of a dispatched id is removed, so the monitor goroutine, the
\* cancelled write and the missing-book return of processDownload have no
\* step to take: the worker of this specification is the rest of Worker.
WorkerUncancelled(rec, w) ==
  \/ WorkerGetNext(rec, w)
  \/ WorkerStart(rec, w)
  \/ WorkerRefresh(rec, w)
  \/ WorkerLookup(rec, w)
  \/ WorkerAttempt(rec, w)
  \/ WorkerMove(rec, w)
  \/ WorkerCheck(rec, w)
  \/ WorkerError(rec, w)
  \/ WorkerPath(rec, w)
  \/ WorkerAvailable(rec, w)

NextLive ==
  \/ \E id \in Ids, d \in Descriptors, p \in Priorities :
       ApiAdd(FALSE, MaxAdds, id, d, p)
  \/ ApiClearCompleted(FALSE)
  \/ ApiGetStatus(FALSE)
  \/ Tick(FALSE)
  \/ \E w \in Workers : WorkerUncancelled(FALSE, w)

SpecLive ==
  /\ Init
  /\ [][NextLive]_vars
  /\ \A w \in Workers : WF_vars(WorkerUncancelled(FALSE, w))

\* SpecStop: the pool under Add, Cancel and ClearCompleted, and one call of
\* Stop.
NextStop ==
  \/ \E id \in Ids : ApiAdd(FALSE, MaxAdds, id, 1, 1)
  \/ \E id \in Ids : ApiCancelDownload(FALSE, id)
  \/ ApiClearCompleted(FALSE)
  \/ StopClose(FALSE)
  \/ StopWait(FALSE)
  \/ \E w \in Workers : PoolWorker(FALSE, w)

SpecStop == Init /\ [][NextStop]_vars

\* SpecEvict: one worker under Add, Cancel and the status report of the backend
\* (GetStatus with its Refresh, then the check of the download paths), while
\* the clock advances and the library takes files out of the ingest
\* directory: records of every status grow older than StatusTimeout.
NextEvict ==
  \/ \E id \in Ids : ApiAdd(TRUE, MaxAdds, id, 1, 1)
  \/ \E id \in Ids : ApiCancelDownload(TRUE, id)
  \/ ApiGetStatus(TRUE)
  \/ \E id \in Ids : QueueStatusVerify(TRUE, id)
  \/ \E id \in Ids : FileVanishes(TRUE, FinalPath(id))
  \/ Tick(TRUE)
  \/ Worker(TRUE, 1)
  \/ Observe

SpecEvict == Init /\ [][NextEvict]_vars

\* SpecTitle: the pool with files named by the titles of the books; each id
\* is added, and added again after an error, and never cancelled.
NextTitle ==
  \/ \E id \in Ids : ApiAdd(FALSE, MaxAdds, id, 1, 1)
  \/ \E w \in Workers : WorkerUncancelled(FALSE, w)

SpecTitle == InitTitle /\ [][NextTitle]_vars

\* SpecCancel: one worker that downloads chunk by chunk, under Add and Cancel.
\* The worker and the monitor goroutine of processDownload are two goroutines,
\* each of which the Go scheduler runs again and again: each takes a step it
\* can take for ever.  A body is CancelLength bytes, read CancelChunk at a
\* time.
CancelLength == 2
CancelChunk == 1

FetcherCancel(rec, w) == Fetcher(rec, w, {0}, {CancelLength}, {CancelChunk})

NextCancel ==
  \/ \E id \in FetchIds, d \in FetchDescriptors : ApiAdd(FALSE, MaxAdds, id, d, 1)
  \/ \E id \in FetchIds : ApiCancelDownload(FALSE, id)
  \/ ApiClearCompleted(FALSE)
  \/ FetcherCancel(FALSE, 1)

SpecCancel ==
  /\ Init
  /\ [][NextCancel]_vars
  /\ WF_vars(FetcherCancel(FALSE, 1))
  /\ WF_vars(Monitor(FALSE, 1))

\* SpecPage: HTMLGetPage called MaxPageCalls times, with and without the
\* bypasser, against a server that answers each request in any way.  Every
\* run of htmlGetPageRetry ends: the request is built, client.Do returns
\* within its timeout, the sleeps are finite.
NextPage ==
  \/ \E useBypasser \in BOOLEAN : HTMLGetPage(FALSE, useBypasser)
  \/ PageStep(FALSE)

SpecPage == InitPage /\ [][NextPage]_vars /\ WF_vars(PageStep(FALSE))

\* ------------------------------------------------------------------ claims
\* the ids a worker is processing
BusyJobs == {job[w] : w \in {x \in Workers : pc[x] # "idle"}}

\* GetNext returns bookID to the worker w in this step
Dispatches(w, bookID) == pc[w] = "idle" /\ pc'[w] = "start" /\ job'[w] = bookID

\* C1: after Cancel(id) has returned true for a queued id, the id is never
\* returned by GetNext and never gets status downloading, unless it is
\* re-added with Add.
C1_CancelledQueuedNeverDispatched ==
  [][\A id \in Ids :
       (id \in cancelledQ /\ id \in cancelledQ') =>
         /\ ~(\E w \in Workers : Dispatches(w, id))
         /\ ~(Has(status', id) /\ status'[id] = StatusDownloading)]_vars

\* the order the registry is to serve: priority, then time of insertion
Before(x, y) ==
  \/ x.Priority < y.Priority
  \/ x.Priority = y.Priority /\ x.AddedTime < y.AddedTime

\* the heap entries (1-based positions) whose id is not in status cancelled
Candidates ==
  {k \in 1 .. Len(queue) :
     ~(Has(status, queue[k].BookID) /\ status[queue[k].BookID] = StatusCancelled)}

\* C2: a GetNext that returns an id returns, among the heap entries whose id is
\* not in status cancelled, the one that is smallest by (priority, time of
\* insertion), after any sequence of Add, Cancel, SetPriority and ReorderQueue.
C2_GetNextReturnsSmallest ==
  [][(last'.op = "GetNext" /\ last'.ret = TRUE) =>
       /\ \E k \in Candidates : queue[k] = last'.arg
       /\ \A k \in Candidates : ~Before(queue[k], last'.arg)]_vars

\* GetNext has returned the earliest of three entries of one priority
C2_Witness ==
  /\ last.op = "GetNext"
  /\ last.ret = TRUE
  /\ Len(queue) = 2
  /\ \A k \in 1 .. 2 :
       /\ queue[k].Priority = last.arg.Priority
       /\ queue[k].AddedTime > last.arg.AddedTime

\* C3: when GetNext returns an id, in that same step the id's status is
\* downloading, it has a fresh open cancel handle and it is marked active.
C3_DispatchSetsDownloading ==
  [][\A w \in Workers, id \in Ids :
       Dispatches(w, id) =>
         /\ Has(status', id) /\ status'[id] = StatusDownloading
         /\ Has(cancelFlags', id)
         /\ cancelFlags'[id] = cancelChan'[w]
         /\ cancelChan'[w] \notin closedChans'
         /\ cancelChan'[w] \notin Referenced(cancelFlags, cancelChan)
         /\ id \in activeDownloads']_vars

\* C4: when Cancel(id) returns true for an id that a worker has taken from
\* GetNext and not yet finished, the handle GetNext gave to that worker is
\* closed when Cancel returns.
C4_CancelClosesHandle ==
  (last.op = "Cancel" /\ last.ret = TRUE) =>
    \A w \in Workers :
      (pc[w] # "idle" /\ job[w] = last.id) => cancelChan[w] \in closedChans

\* C5: once Cancel(id) has returned true for a downloading id, the status
\* stays cancelled until the record is removed or re-added.
C5_CancelledStays ==
  [][\A id \in Ids :
       (id \in cancelledD /\ id \in cancelledD') =>
         (Has(status', id) /\ status'[id] = StatusCancelled)]_vars

\* C6: whenever a request has ended with status cancelled, no file exists at
\* its final path in the ingest directory.
C6_NoFileWhenCancelled ==
  \A id \in DOMAIN status :
    (status[id] = StatusCancelled /\ id \notin BusyJobs) =>
      FinalPath(id) \notin ingest

\* C7: the ids reported by GetActiveDownloads are ids that workers are
\* processing, so there are at most MaxConcurrentDownloads of them.
C7_ActiveBounded ==
  /\ activeDownloads \subseteq BusyJobs
  /\ Cardinality(activeDownloads) <= MaxConcurrentDownloads

\* every worker is busy and as many ids are active
C7_Witness ==
  /\ \A w \in Workers : pc[w] # "idle"
  /\ Cardinality(activeDownloads) = MaxConcurrentDownloads

\* C8: Add on an id whose status is queued, downloading or available changes
\* nothing: status, descriptor, priority, timestamp, heap, handles, active set.
C8_AddOnLiveIsNoOp ==
  [][(/\ last'.op = "Add"
      /\ Has(status, last'.id)
      /\ status[last'.id] \in {StatusQueued, StatusDownloading, StatusAvailable})
       => UNCHANGED
            <<queue, status, bookData, statusTimestamps, cancelFlags,
              activeDownloads, closedChans>>]_vars

\* Add has been refused on an available id, at a time later than its timestamp
C8_Witness ==
  /\ last.op = "Add"
  /\ last.ret = FALSE
  /\ Has(status, last.id)
  /\ status[last.id] = StatusAvailable
  /\ statusTimestamps[last.id] < now

\* C9: Add(id, d, p) on a done, error or cancelled id leaves the id queued with
\* descriptor d and priority p, and the id is dispatched with the priority the
\* registry stores for it.
C9_ReaddResets ==
  /\ (last.op = "Add" /\ last.ret = TRUE) =>
       /\ Has(status, last.id) /\ status[last.id] = StatusQueued
       /\ Has(bookData, last.id)
       /\ bookData[last.id].DownloadURLs = last.arg[1]
       /\ bookData[last.id].Priority = last.arg[2]
  /\ (last.op = "GetNext" /\ last.ret = TRUE /\ Has(bookData, last.id)) =>
       last.arg.Priority = bookData[last.id].Priority

\* C10: Cancel returns true exactly for a queued or downloading id, whose
\* status it sets to cancelled; otherwise the registry is left as it was.
C10_CancelResult ==
  [][last'.op = "Cancel" =>
       LET id == last'.id
           live ==
             Has(status, id) /\ status[id] \in {StatusQueued, StatusDownloading}
       IN  /\ last'.ret = live
           /\ live => (Has(status', id) /\ status'[id] = StatusCancelled)
           /\ ~live => UNCHANGED regVars]_vars

\* Cancel has been refused on an available id after it had succeeded on a
\* downloading one
C10_Witness ==
  /\ last.op = "Cancel"
  /\ last.ret = FALSE
  /\ Has(status, last.id)
  /\ status[last.id] = StatusAvailable
  /\ \E b \in cancelledD : Has(status, b) /\ status[b] = StatusCancelled

\* C11: GetNext on a heap that is empty, or whose entries all belong to ids in
\* status cancelled, returns nothing, allocates no handle, marks nothing
\* active, changes no status and leaves the heap empty.
C11_GetNextEmpty ==
  [][(last'.op = "GetNext" /\ Candidates = {}) =>
       /\ last'.ret = FALSE
       /\ queue' = <<>>
       /\ UNCHANGED
            <<status, bookData, statusTimestamps, cancelFlags, activeDownloads,
              closedChans>>]_vars

\* GetNext has returned nothing from a heap of two or more entries
C11_Witness ==
  /\ last.op = "GetNext"
  /\ last.ret = FALSE
  /\ last.arg >= 2
  /\ queue = <<>>

\* C12: every id the registry knows has a status and a record: no status
\* without a record, no record without a status.
C12_StatusHasRecord ==
  /\ DOMAIN status = DOMAIN bookData
  /\ \A id \in DOMAIN status : status[id] \in QueueStatus

\* the heap holds an entry of bookID
InHeap(bookID) == \E k \in 1 .. Len(queue) : queue[k].BookID = bookID

\* C13: the heap holds an entry for an id if and only if the id's status is
\* queued, but for the entries of ids cancelled while queued.
C13_HeapIffQueued ==
  \A id \in Ids :
    /\ (Has(status, id) /\ status[id] = StatusQueued) => InHeap(id)
    /\ InHeap(id) =>
         (Has(status, id) /\ status[id] \in {StatusQueued, StatusCancelled})

\* C14: a record's download path is set if and only if its status is
\* available.
C14_PathIffAvailable ==
  \A id \in DOMAIN status \cap DOMAIN bookData :
    bookData[id].DownloadPath # NoPath <=> status[id] = StatusAvailable

\* C15: no cancel handle is closed twice, whatever the interleaving of Cancel,
\* UpdateStatus with a terminal status, ClearCompleted, GetNext and re-Add.
C15_NoDoubleClose == ~panicked

\* Cancel has closed the handle of a downloading id, and the worker has since
\* written its terminal status
C15_Witness ==
  \E id \in cancelledD :
    /\ Has(status, id)
    /\ status[id] = StatusCancelled
    /\ id \notin BusyJobs
    /\ ~Has(cancelFlags, id)
    /\ ~panicked

\* C16: the active set never contains an id whose status is available, error,
\* cancelled or done.
C16_ActiveNotTerminal ==
  \A id \in activeDownloads :
    ~(Has(status, id)
      /\ status[id] \in
           {StatusAvailable, StatusError, StatusCancelled, StatusDone})

\* the worker w makes its last call, UpdateStatus with a terminal status
TerminalWrite(w) ==
  pc[w] \in {"nobook", "cancelled", "error", "available"} /\ pc'[w] = "idle"

WrittenStatus(w) ==
  IF pc[w] = "available" THEN StatusAvailable
  ELSE IF pc[w] = "cancelled" THEN StatusCancelled ELSE StatusError

Completed ==
  {x \in DOMAIN status :
     status[x] \in {StatusDone, StatusError, StatusCancelled}}

C19_SetPriorityShows ==
  (/\ last.op = "SetPriority"
   /\ Has(status, last.id)
   /\ status[last.id] = StatusQueued) =>
    /\ last.ret = TRUE
    /\ InHeap(last.id)
    /\ \A k \in 1 .. Len(queue) :
         queue[k].BookID = last.id => queue[k].Priority = last.arg
    /\ Has(bookData, last.id)
    /\ bookData[last.id].Priority = last.arg

\* C20: SetPriority on an unknown id or on an id whose status is not queued
\* returns false and changes nothing.
C20_SetPriorityRefused ==
  [][(/\ last'.op = "SetPriority"
      /\ ~(Has(status, last'.id) /\ status[last'.id] = StatusQueued))
       => (last'.ret = FALSE /\ UNCHANGED regVars)]_vars

\* SetPriority has been refused on a downloading id that has an entry in the
\* heap
C20_Witness ==
  /\ last.op = "SetPriority"
  /\ last.ret = FALSE
  /\ Has(status, last.id)
  /\ status[last.id] = StatusDownloading
  /\ InHeap(last.id)

\* the array q is a heap in the order the registry is to serve
IsHeap(q) == \A j \in 2 .. Len(q) : ~Before(q[j], q[j \div 2])

\* C21: ReorderQueue(m) gives every heap entry whose id is a key of m the
\* priority m[id], leaves the priority of every other entry, adds and removes
\* no entry, leaves the times of insertion, and leaves the array a heap whose
\* root is the entry the new priorities put first.
C21_ReorderQueueApplies ==
  [][last'.op = "ReorderQueue" =>
       LET m == last'.arg
           moved(x) ==
             [x EXCEPT !.Priority = IF Has(m, x.BookID) THEN m[x.BookID] ELSE @]
       IN  /\ Len(queue') = Len(queue)
           /\ \A k \in 1 .. Len(queue) :
                \E j \in 1 .. Len(queue') : queue'[j] = moved(queue[k])
           /\ IsHeap(queue')
           /\ \A j \in 1 .. Len(queue') : ~Before(queue'[j], queue'[1])
           /\ \A x \in DOMAIN bookData :
                (InHeap(x) /\ Has(m, x)) => bookData'[x].Priority = m[x]]_vars

\* ReorderQueue has been given priorities for two of the three entries of the
\* heap, and the entry inserted last is now the root, alone in its priority
C21_Witness ==
  /\ last.op = "ReorderQueue"
  /\ Len(queue) = 3
  /\ Cardinality(DOMAIN last.arg) = 2
  /\ queue[1].BookID \in DOMAIN last.arg
  /\ queue[1].AddedTime = 2
  /\ \A k \in 2 .. 3 : queue[k].Priority > queue[1].Priority

\* C22: the sequence GetQueueOrder returns is in dispatch order: by priority
\* and, within a priority, by time of insertion.
C22_QueueOrderSorted ==
  last.op = "GetQueueOrder" =>
    \A i, j \in 1 .. Len(last.arg) :
      i < j => ~Before(last.arg[j], last.arg[i])

\* the worker w is inside DownloadURL
InAttempt(w) == pc[w] \in {"attempt", "chunk", "validate"}

\* C23: the candidate URLs are tried in order: an attempt that fails without
\* cancellation on a URL that is not the last is followed by the attempt on
\* the next URL, no URL is tried after one has succeeded, and the file then
\* published at the final path holds the bytes that URL served.
C23_FirstSuccessPublished ==
  [][\A w \in Workers :
       /\ (InAttempt(w) /\ ~ctxDone[w] /\ urlIdx'[w] # urlIdx[w]) =>
            (pc'[w] = "attempt" /\ urlIdx'[w] = urlIdx[w] + 1)
       /\ (InAttempt(w) /\ pc'[w] = "check") => urlIdx[w] = book[w]
       /\ pc[w] = "move" => (pc'[w] \in {"move", "check"} /\ urlIdx'[w] = urlIdx[w])
       /\ (pc[w] = "move" /\ pc'[w] = "check" /\ ~dlErr'[w]) =>
            /\ ingestFile'[job[w]] # NoFile
            /\ inodeData'[ingestFile'[job[w]]] = Served(urlIdx[w], downloaded[w])]_vars

\* C24: once the cancel handle has been signalled and the download's context
\* is cancelled during the attempt on a URL, DownloadBook goes on to no later
\* URL.
C24_CancelStopsIteration ==
  [][\A w \in Workers :
       (InAttempt(w) /\ cancelChan[w] \in closedChans /\ ctxDone[w]) =>
         ~(pc'[w] = "attempt" /\ urlIdx'[w] > urlIdx[w])]_vars

\* C25: the terminal status a worker writes follows the outcome of the
\* download: cancelled if and only if the cancel handle has been signalled,
\* error only if DownloadBook has failed (or the book was not found) and
\* available only if DownloadBook has succeeded, the file is at the final
\* path and the record carries that path.
C25_TerminalStatusFollowsOutcome ==
  [][\A w \in Workers :
       TerminalWrite(w) =>
         /\ WrittenStatus(w) = StatusCancelled <=> cancelChan[w] \in closedChans
         /\ WrittenStatus(w) = StatusError => (pc[w] = "nobook" \/ dlErr[w])
         /\ WrittenStatus(w) = StatusAvailable =>
              /\ ~dlErr[w]
              /\ FinalPath(job[w]) \in ingest
              /\ Has(bookData, job[w]) =>
                   bookData[job[w]].DownloadPath = FinalPath(job[w])]_vars

C27_ProgressMonotonic ==
  [][\A w \in Workers :
       (reported[w] # NoProgress /\ reported'[w] # NoProgress) =>
         reported'[w] >= reported[w]]_vars

\* C28: every progress value given to the progress callback and stored in a
\* record lies between 0 and 100.
C28_ProgressInRange ==
  /\ \A w \in Workers :
       reported[w] # NoProgress => (reported[w] >= 0 /\ reported[w] <= 100)
  /\ \A id \in DOMAIN bookData :
       bookData[id].Progress # NoProgress =>
         (bookData[id].Progress >= 0 /\ bookData[id].Progress <= 100)

\* C29: with finitely many Adds, no Cancel and attempts that end, under fair
\* scheduling of the workers every queued id is eventually dispatched and
\* eventually has a terminal status and is out of the active set; an id that
\* no worker is processing is available only with its download path set and
\* its file in place.
C29_EveryAddedIdCompletes ==
  \A id \in Ids :
    /\ (Has(status, id) /\ status[id] = StatusQueued) ~> (id \in BusyJobs)
    /\ (Has(status, id) /\ status[id] = StatusQueued) ~>
         (/\ Has(status, id)
          /\ status[id] \in {StatusAvailable, StatusError}
          /\ id \notin activeDownloads)
    /\ []((/\ Has(status, id)
           /\ status[id] = StatusAvailable
           /\ id \notin BusyJobs
           /\ Has(bookData, id))
            => (/\ bookData[id].DownloadPath = FinalPath(id)
                /\ FinalPath(id) \in ingest))

\* both ids have been downloaded: they are available with their paths, no
\* worker is busy and the active set is empty
C29_Witness ==
  /\ \A id \in Ids :
       /\ Has(status, id)
       /\ status[id] = StatusAvailable
       /\ bookData[id].DownloadPath = FinalPath(id)
  /\ BusyJobs = {}
  /\ activeDownloads = {}
  /\ queue = <<>>

\* C30: Stop returns only when every worker has exited; a worker exits only
\* from the top of its loop, so a worker that is processing a download when
\* the stop signal is raised leaves it only by writing its terminal status,
\* and exits after that.
C30_StopWaitsForWorkers ==
  [][/\ stopPc' = "done" => \A w \in Workers : pc'[w] = "exited"
     /\ \A w \in Workers :
          /\ (pc[w] # "exited" /\ pc'[w] = "exited") =>
               (pc[w] = "idle" /\ job[w] = NoId /\ stopChan)
          /\ (/\ stopChan
              /\ pc[w] \notin {"idle", "poll", "exited"}
              /\ pc'[w] \in {"idle", "poll", "exited"}) =>
               /\ TerminalWrite(w)
               /\ status'[job[w]] = WrittenStatus(w)]_vars

\* the stop signal is raised and Stop waits: one worker has exited, the other
\* has a download in flight that has succeeded and is about to write available
C30_Witness ==
  /\ stopChan
  /\ stopPc = "wait"
  /\ \E w, v \in Workers :
       /\ pc[w] = "exited"
       /\ pc[v] = "available"
       /\ job[v] \in activeDownloads

\* C31: a pass of Refresh (here the one GetStatus makes) that finds a record
\* available whose download path names a file that is no longer in the ingest
\* directory leaves that record done, or evicts it.
C31_SweepDemotesMissingFile ==
  [][last'.op = "GetStatus" =>
       \A id \in Ids :
         (/\ Has(status, id)
          /\ status[id] = StatusAvailable
          /\ Has(bookData, id)
          /\ bookData[id].DownloadPath # NoPath
          /\ bookData[id].DownloadPath \notin ingest)
           => (Has(status', id) => status'[id] = StatusDone)]_vars

\* the terminal statuses
Terminal == {StatusAvailable, StatusDone, StatusError, StatusCancelled}

\* the status of x has not changed for more than StatusTimeout
Aged(x) == now - statusTimestamps[x] > StatusTimeout

C33_FinalPathsDistinct ==
  \A x, y \in Ids :
    (/\ x # y
     /\ Has(status, x) /\ status[x] = StatusAvailable
     /\ Has(status, y) /\ status[y] = StatusAvailable
     /\ Has(bookData, x) /\ Has(bookData, y)
     /\ bookData[x].DownloadPath # NoPath)
      => bookData[x].DownloadPath # bookData[y].DownloadPath

\* the step is a call of the registry that takes bq.mu for writing
LockedWrite ==
  \/ last'.op \in
       {"Add", "Cancel", "SetPriority", "ReorderQueue", "ClearCompleted",
        "GetStatus", "GetNext", "UpdateStatus", "UpdateProgress"}
  \/ \E w \in Workers : pc[w] = "path" /\ pc'[w] = "available"

\* C34: a record, its status or its timestamp changes only in a step that is
\* a call of the registry holding the write lock.
C34_WritesUnderLock ==
  [][(bookData' # bookData \/ status' # status
        \/ statusTimestamps' # statusTimestamps) => LockedWrite]_vars

\* Cancel has closed the cancel channel of the worker that is downloading id
CancelSignalled(id) ==
  \E w \in Workers :
    /\ job[w] = id
    /\ InAttempt(w)
    /\ ~ctxDone[w]
    /\ cancelChan[w] \in closedChans
    /\ Has(status, id) /\ status[id] = StatusCancelled

\* C35: once Cancel has signalled the worker that is downloading an id, the
\* worker eventually is done with the id, and the id is then out of the active
\* set with status cancelled.
C35_CancelEventuallyCancelled ==
  \A id \in FetchIds :
    CancelSignalled(id) ~>
      (/\ id \notin BusyJobs
       /\ id \notin activeDownloads
       /\ Has(status, id) => status[id] = StatusCancelled)

\* C36: no GetNext of a worker returns an id once stopChan is closed.
C36_NoDispatchAfterStop ==
  [][\A w \in Workers :
       (pc[w] = "poll" /\ pc'[w] = "start") => ~stopChan]_vars

\* C37: the heap holds at most one entry for an id.
C37_HeapIdsUnique ==
  \A i, j \in 1 .. Len(queue) :
    queue[i].BookID = queue[j].BookID => i = j

\* C38: no two workers hold the same id between GetNext and the terminal
\* write.
C38_OneWorkerPerId ==
  \A w, v \in Workers :
    (w # v /\ job[w] # NoId) => job[w] # job[v]

\* worker w holds an earlier episode of its id: its cancel channel has been
\* closed, which leaves the id cancelled, and the id is queued again, which
\* only an Add after that does
EarlierEpisode(w) ==
  /\ job[w] # NoId
  /\ cancelChan[w] \in closedChans
  /\ Has(status, job[w])
  /\ status[job[w]] = StatusQueued

\* C39: the terminal write of a worker that holds an earlier episode of an id
\* leaves the status of the id as it is and closes no cancel channel that the
\* registry holds for the id.
C39_LateWriteHarmless ==
  [][\A w \in Workers :
       (TerminalWrite(w) /\ EarlierEpisode(w)) =>
         /\ status'[job[w]] = status[job[w]]
         /\ Has(cancelFlags, job[w]) =>
              /\ Has(cancelFlags', job[w])
              /\ cancelFlags[job[w]] \notin closedChans']_vars

====
